---- MODULE Spec2Model ----
(***************************************************************************)
(* Model of k8s_pod_monitor.py: the PodMonitorOperator watch loop          *)
(* (run/stop), the HealthServer it starts and stops, the SlackNotifier it  *)
(* calls, a second thread calling stop(), and the interrupt signal         *)
(* (KeyboardInterrupt) delivered to the main thread.                       *)
(***************************************************************************)
EXTENDS Naturals, Sequences, FiniteSets, TLC

\* ---- bounds of the model ------------------------------------------------
MaxEvents == 2
MaxErrors == 2
MaxTimeouts == 1
MaxStopCalls == 1
MaxInterrupts == 2

\* ---- program constants --------------------------------------------------
BackoffSeconds == 5

VARIABLES
    config,      \* environment at startup: "ok", "no_webhook", "no_kube"
    pc,          \* position of the main thread (main -> __init__ -> run)
    pending,     \* exception propagating in the main thread, or "none"
    exit,        \* outcome of main(): "none", "clean", "fatal"
    running,     \* PodMonitorOperator.running
    server,      \* HealthServer.server: "none", "open", "closed"
    hpc,         \* HealthServer.thread: "none", "created", "started", "serving", "exited"
    shutdownReq, \* HTTPServer.__shutdown_request
    isShutDown,  \* HTTPServer.__is_shut_down (threading.Event)
    health,      \* the latest answer of HealthHandler while the server runs
    spc,         \* position of a second thread calling operator.stop()
    stopCalls,   \* number of stop() calls begun by the second thread
    interrupts,  \* number of interrupt signals delivered
    opens,       \* number of w.stream(...) calls (watch sessions opened)
    errors,      \* number of exceptions caught by the loop's handlers
    timeouts,    \* number of sessions ended by the server-side timeout
    backoffs,    \* number of time.sleep(5) waits begun
    slept,       \* total seconds requested from time.sleep
    nRecv,       \* number of events received from the stream
    cur,         \* the event being processed, or NoEvent
    sent,        \* the requests.post calls made, in order
    response,    \* outcome of the latest requests.post, "" while none or in flight
    flagCleared, \* threads whose stop() has executed self.running = False
    intInLoop,   \* an interrupt arrived inside run()'s try block
    haltOnError  \* a handler found running false (no retry)

vars == <<config, pc, pending, exit, running, server, hpc, shutdownReq,
          isShutDown, health, spc, stopCalls, interrupts, opens, errors, timeouts,
          backoffs, slept, nRecv, cur, sent, response, flagCleared,
          intInLoop, haltOnError>>

healthVars == <<server, hpc, shutdownReq, isShutDown, health>>
loopVars == <<opens, errors, timeouts, backoffs, slept, nRecv, cur, sent, response,
             haltOnError>>

\* ---- events of the stream -----------------------------------------------
Chars_k8s_app == <<"k", "8", "s", "-", "a", "p", "p">>
Chars_app == <<"a", "p", "p">>

NoLabels == [present |-> FALSE, keys |-> {}]
Labels(ks) == [present |-> TRUE, keys |-> ks]

PodWeb == [meta |-> TRUE, name |-> "web-1", namespace |-> "default", labels |-> Labels({Chars_app})]
PodDns == [meta |-> TRUE, name |-> "coredns", namespace |-> "kube-system", labels |-> NoLabels]
PodProxy == [meta |-> TRUE, name |-> "proxy", namespace |-> "default", labels |-> Labels({Chars_k8s_app})]
PodBad == [meta |-> FALSE, name |-> "", namespace |-> "", labels |-> NoLabels]

Pods == {PodWeb, PodDns, PodProxy, PodBad}
EventTypes == {"ADDED", "MODIFIED", "DELETED", "BOOKMARK"}
NoEvent == [id |-> 0, type |-> "", pod |-> PodBad]

Responses == {"200", "500", "ConnectionError"}
StreamErrors == {"ApiException", "Exception"}

\* ---- pure functions -----------------------------------------------------
StartsWith(s, p) == Len(s) >= Len(p) /\ SubSeq(s, 1, Len(p)) = p

_should_ignore_pod_exact(pod) ==
    IF pod.namespace = "kube-system" THEN TRUE
    ELSE LET labels == IF pod.labels.present THEN pod.labels.keys ELSE {}
         IN  \E label \in labels : label = Chars_k8s_app
_should_ignore_pod(pod) ==
    IF pod.namespace = "kube-system" THEN TRUE
    ELSE LET labels == IF pod.labels.present THEN pod.labels.keys ELSE {}
         IN  \E label \in labels : StartsWith(label, Chars_k8s_app)

_extract_pod_name(pod) == pod.name

MessageNoComma(event_type, pod) ==
    IF event_type = "ADDED" THEN "Hello world from " \o _extract_pod_name(pod)
    ELSE IF event_type = "MODIFIED" THEN "Things have changed, " \o _extract_pod_name(pod)
    ELSE IF event_type = "DELETED" THEN "Goodbye world from " \o _extract_pod_name(pod)
    ELSE ""
Message(event_type, pod) ==
    IF event_type = "ADDED" THEN "Hello world from " \o _extract_pod_name(pod)
    ELSE IF event_type = "MODIFIED" THEN "Things have changed, " \o _extract_pod_name(pod)
    ELSE IF event_type = "DELETED" THEN "Goodbye world from, " \o _extract_pod_name(pod)
    ELSE ""

Notifies(event_type) == event_type \in {"ADDED", "MODIFIED", "DELETED"}

send_message_lenient(resp) == resp # "ConnectionError"
send_message(resp) == IF resp = "ConnectionError" THEN FALSE ELSE resp = "200"

\* HealthHandler.do_GET: the status and the body's status field
Paths == {"/health", "/"}
NoAnswer == [path |-> "", code |-> 0, status |-> ""]
do_GET_reflecting(path) ==
    IF path = "/health"
    THEN (IF errors = 0 THEN [path |-> path, code |-> 200, status |-> "healthy"]
          ELSE [path |-> path, code |-> 503, status |-> "unhealthy"])
    ELSE [path |-> path, code |-> 404, status |-> ""]
do_GET(path) ==
    IF path = "/health" THEN [path |-> path, code |-> 200, status |-> "healthy"]
    ELSE [path |-> path, code |-> 404, status |-> ""]

\* ---- positions ----------------------------------------------------------
PreTryPcs == {"init", "start_bind", "start_new", "start_run", "set_running", "new_watch"}
LoopPcs == {"loop_top", "open", "read", "check_running", "filter", "handle",
            "await_resp", "except", "backoff"}
StopPcs == {"stop_flag", "stop_srv", "stop_wait", "stop_close", "stop_join"}

Init ==
    /\ config \in {"ok", "no_webhook", "no_kube"}
    /\ pc = "init"
    /\ pending = "none"
    /\ exit = "none"
    /\ running = FALSE
    /\ server = "none"
    /\ hpc = "none"
    /\ shutdownReq = FALSE
    /\ isShutDown = FALSE
    /\ health = NoAnswer
    /\ spc = "idle"
    /\ stopCalls = 0
    /\ interrupts = 0
    /\ opens = 0
    /\ errors = 0
    /\ timeouts = 0
    /\ backoffs = 0
    /\ slept = 0
    /\ nRecv = 0
    /\ cur = NoEvent
    /\ sent = <<>>
    /\ response = ""
    /\ flagCleared = {}
    /\ intInLoop = FALSE
    /\ haltOnError = FALSE

\* ---- main thread: main(), __init__ --------------------------------------
\* variant: the webhook URL is not validated
ConstructLenient ==
    /\ pc = "init"
    /\ IF config # "no_kube"
       THEN pc' = "start_bind" /\ pending' = "none"
       ELSE pc' = "run_exit" /\ pending' = "ConfigException"
    /\ UNCHANGED <<config, exit, running, healthVars, spc, stopCalls, interrupts,
                   loopVars, flagCleared, intInLoop>>

Construct ==
    /\ pc = "init"
    /\ IF config = "ok"
       THEN pc' = "start_bind" /\ pending' = "none"
       ELSE pc' = "run_exit" /\ pending' = IF config = "no_webhook" THEN "ValueError" ELSE "ConfigException"
    /\ UNCHANGED <<config, exit, running, healthVars, spc, stopCalls, interrupts,
                   loopVars, flagCleared, intInLoop>>

\* ---- HealthServer.start -------------------------------------------------
StartBind ==
    /\ pc = "start_bind"
    /\ \E ok \in BOOLEAN :
         IF ok THEN server' = "open" /\ pc' = "start_new" /\ pending' = "none"
         ELSE server' = server /\ pc' = "run_exit" /\ pending' = "OSError"
    /\ UNCHANGED <<config, exit, running, hpc, health, shutdownReq, isShutDown, spc, stopCalls,
                   interrupts, loopVars, flagCleared, intInLoop>>

StartNewThread ==
    /\ pc = "start_new"
    /\ hpc' = "created"
    /\ pc' = "start_run"
    /\ UNCHANGED <<config, pending, exit, running, server, health, shutdownReq, isShutDown, spc,
                   stopCalls, interrupts, loopVars, flagCleared, intInLoop>>

StartRunThread ==
    /\ pc = "start_run"
    /\ hpc' = "started"
    /\ pc' = "set_running"
    /\ UNCHANGED <<config, pending, exit, running, server, health, shutdownReq, isShutDown, spc,
                   stopCalls, interrupts, loopVars, flagCleared, intInLoop>>

\* ---- the health thread: HTTPServer.serve_forever ------------------------
ServeEnter ==
    /\ hpc = "started"
    /\ isShutDown' = FALSE
    /\ hpc' = "serving"
    /\ UNCHANGED <<config, pc, pending, exit, running, server, health, shutdownReq, spc, stopCalls,
                   interrupts, loopVars, flagCleared, intInLoop>>

\* one pass of the serve_forever loop that finds a request and handles it
ServeRequest ==
    /\ hpc = "serving"
    /\ ~shutdownReq
    /\ \E path \in Paths : health' = do_GET(path)
    /\ UNCHANGED <<config, pc, pending, exit, running, server, hpc, shutdownReq, isShutDown,
                   spc, stopCalls, interrupts, loopVars, flagCleared, intInLoop>>

ServeExit ==
    /\ hpc = "serving"
    /\ shutdownReq
    /\ shutdownReq' = FALSE
    /\ isShutDown' = TRUE
    /\ hpc' = "exited"
    /\ health' = NoAnswer
    /\ UNCHANGED <<config, pc, pending, exit, running, server, spc, stopCalls,
                   interrupts, loopVars, flagCleared, intInLoop>>

\* ---- PodMonitorOperator.run ---------------------------------------------
SetRunning ==
    /\ pc = "set_running"
    /\ running' = TRUE
    /\ pc' = "new_watch"
    /\ UNCHANGED <<config, pending, exit, healthVars, spc, stopCalls, interrupts,
                   loopVars, flagCleared, intInLoop>>

NewWatch ==
    /\ pc = "new_watch"
    /\ pc' = "loop_top"
    /\ UNCHANGED <<config, pending, exit, running, healthVars, spc, stopCalls, interrupts,
                   loopVars, flagCleared, intInLoop>>

\* variant: while True
LoopTopForever ==
    /\ pc = "loop_top"
    /\ pc' = "open"
    /\ UNCHANGED <<config, pending, exit, running, healthVars, spc, stopCalls, interrupts,
                   loopVars, flagCleared, intInLoop>>

LoopTop ==
    /\ pc = "loop_top"
    /\ pc' = IF running THEN "open" ELSE "stop_flag"
    /\ UNCHANGED <<config, pending, exit, running, healthVars, spc, stopCalls, interrupts,
                   loopVars, flagCleared, intInLoop>>

OpenStream ==
    /\ pc = "open"
    /\ opens' = opens + 1
    /\ pc' = "read"
    /\ UNCHANGED <<config, pending, exit, running, healthVars, spc, stopCalls, interrupts,
                   errors, timeouts, backoffs, slept, nRecv, cur, sent, response, haltOnError,
                   flagCleared, intInLoop>>

ReadEvent ==
    /\ pc = "read"
    /\ nRecv < MaxEvents
    /\ \E t \in EventTypes, p \in Pods :
         cur' = [id |-> nRecv + 1, type |-> t, pod |-> p]
    /\ nRecv' = nRecv + 1
    /\ pc' = "check_running"
    /\ UNCHANGED <<config, pending, exit, running, healthVars, spc, stopCalls, interrupts,
                   opens, errors, timeouts, backoffs, slept, sent, response, haltOnError,
                   flagCleared, intInLoop>>

\* variant: the end of a session is followed by the retry delay
ReadTimeoutBackoff ==
    /\ pc = "read"
    /\ timeouts < MaxTimeouts
    /\ timeouts' = timeouts + 1
    /\ backoffs' = backoffs + 1
    /\ slept' = slept + BackoffSeconds
    /\ pc' = "backoff"
    /\ UNCHANGED <<config, pending, exit, running, healthVars, spc, stopCalls, interrupts,
                   opens, errors, nRecv, cur, sent, response, haltOnError,
                   flagCleared, intInLoop>>

ReadTimeout ==
    /\ pc = "read"
    /\ timeouts < MaxTimeouts
    /\ timeouts' = timeouts + 1
    /\ pc' = "loop_top"
    /\ UNCHANGED <<config, pending, exit, running, healthVars, spc, stopCalls, interrupts,
                   opens, errors, backoffs, slept, nRecv, cur, sent, response, haltOnError,
                   flagCleared, intInLoop>>

ReadError ==
    /\ pc = "read"
    /\ errors < MaxErrors
    /\ \E e \in StreamErrors : pending' = e
    /\ errors' = errors + 1
    /\ pc' = "except"
    /\ UNCHANGED <<config, exit, running, healthVars, spc, stopCalls, interrupts,
                   opens, timeouts, backoffs, slept, nRecv, cur, sent, response, haltOnError,
                   flagCleared, intInLoop>>

\* variant: the flag is not looked at on receipt
CheckRunningIgnored ==
    /\ pc = "check_running"
    /\ pc' = "filter"
    /\ UNCHANGED <<config, pending, exit, running, healthVars, spc, stopCalls, interrupts,
                   loopVars, flagCleared, intInLoop>>

CheckRunning ==
    /\ pc = "check_running"
    /\ IF running THEN pc' = "filter" /\ cur' = cur
       ELSE pc' = "loop_top" /\ cur' = NoEvent
    /\ UNCHANGED <<config, pending, exit, running, healthVars, spc, stopCalls, interrupts,
                   opens, errors, timeouts, backoffs, slept, nRecv, sent, response, haltOnError,
                   flagCleared, intInLoop>>

\* variant: an ignored pod ends the session (break for continue)
FilterBreaks ==
    /\ pc = "filter"
    /\ IF ~cur.pod.meta
       THEN pc' = "except" /\ pending' = "AttributeError" /\ cur' = NoEvent
            /\ errors' = errors + 1
       ELSE IF _should_ignore_pod(cur.pod)
       THEN pc' = "loop_top" /\ pending' = pending /\ cur' = NoEvent /\ errors' = errors
       ELSE pc' = "handle" /\ pending' = pending /\ cur' = cur /\ errors' = errors
    /\ UNCHANGED <<config, exit, running, healthVars, spc, stopCalls, interrupts,
                   opens, timeouts, backoffs, slept, nRecv, sent, response, haltOnError,
                   flagCleared, intInLoop>>

Filter ==
    /\ pc = "filter"
    /\ IF ~cur.pod.meta
       THEN pc' = "except" /\ pending' = "AttributeError" /\ cur' = NoEvent
            /\ errors' = errors + 1
       ELSE IF _should_ignore_pod(cur.pod)
       THEN pc' = "read" /\ pending' = pending /\ cur' = NoEvent /\ errors' = errors
       ELSE pc' = "handle" /\ pending' = pending /\ cur' = cur /\ errors' = errors
    /\ UNCHANGED <<config, exit, running, healthVars, spc, stopCalls, interrupts,
                   opens, timeouts, backoffs, slept, nRecv, sent, response, haltOnError,
                   flagCleared, intInLoop>>

\* variant: the post is started and the loop reads on without its response
HandlePodEventAsync ==
    /\ pc = "handle"
    /\ IF Notifies(cur.type)
       THEN /\ sent' = Append(sent, [id |-> cur.id, msg |-> Message(cur.type, cur.pod),
                                     result |-> "pending"])
            /\ response' = ""
       ELSE /\ sent' = sent
            /\ response' = response
    /\ pc' = "read"
    /\ cur' = NoEvent
    /\ UNCHANGED <<config, pending, exit, running, healthVars, spc, stopCalls, interrupts,
                   opens, errors, timeouts, backoffs, slept, nRecv, haltOnError,
                   flagCleared, intInLoop>>

HandlePodEvent ==
    /\ pc = "handle"
    /\ IF Notifies(cur.type)
       THEN /\ sent' = Append(sent, [id |-> cur.id, msg |-> Message(cur.type, cur.pod),
                                     result |-> "pending"])
            /\ response' = ""
            /\ pc' = "await_resp"
            /\ cur' = cur
       ELSE /\ sent' = sent
            /\ response' = response
            /\ pc' = "read"
            /\ cur' = NoEvent
    /\ UNCHANGED <<config, pending, exit, running, healthVars, spc, stopCalls, interrupts,
                   opens, errors, timeouts, backoffs, slept, nRecv, haltOnError,
                   flagCleared, intInLoop>>

\* variant: a failed delivery is attempted again
SendResponseRetry ==
    /\ pc = "await_resp"
    /\ \E resp \in Responses :
         /\ response' = resp
         /\ sent' = [sent EXCEPT ![Len(sent)].result =
                         IF send_message(resp) THEN "delivered" ELSE "failed"]
         /\ IF send_message(resp) THEN pc' = "read" /\ cur' = NoEvent
            ELSE pc' = "handle" /\ cur' = cur
    /\ UNCHANGED <<config, pending, exit, running, healthVars, spc, stopCalls, interrupts,
                   opens, errors, timeouts, backoffs, slept, nRecv, haltOnError,
                   flagCleared, intInLoop>>

SendResponse ==
    /\ pc = "await_resp"
    /\ \E resp \in Responses :
         /\ response' = resp
         /\ sent' = [sent EXCEPT ![Len(sent)].result =
                         IF send_message(resp) THEN "delivered" ELSE "failed"]
    /\ pc' = "read"
    /\ cur' = NoEvent
    /\ UNCHANGED <<config, pending, exit, running, healthVars, spc, stopCalls, interrupts,
                   opens, errors, timeouts, backoffs, slept, nRecv, haltOnError,
                   flagCleared, intInLoop>>

\* line 219 / 225: if self.running: time.sleep(5)
HandlerSleepsNever(r) == FALSE
HandlerSleepsAlways(r) == TRUE
HandlerSleeps(r) == r

\* what "except ApiException" and "except Exception" catch
ExceptionClasses == {"ApiException", "Exception", "AttributeError"}
CatchesApiOnly(e) == e = "ApiException"
CatchesAll(e) == TRUE
Catches(e) == e = "ApiException" \/ e \in ExceptionClasses

\* the two handlers of the loop's inner try: except ApiException, except Exception
Except ==
    /\ pc = "except"
    /\ IF ~Catches(pending)
       THEN /\ pc' = "stop_flag"
            /\ UNCHANGED <<pending, backoffs, slept, haltOnError>>
       ELSE /\ pending' = "none"
            /\ IF HandlerSleeps(running)
               THEN /\ pc' = "backoff"
                    /\ backoffs' = backoffs + 1
                    /\ slept' = slept + BackoffSeconds
                    /\ haltOnError' = haltOnError
               ELSE /\ pc' = "loop_top"
                    /\ backoffs' = backoffs
                    /\ slept' = slept
                    /\ haltOnError' = TRUE
    /\ UNCHANGED <<config, exit, running, healthVars, spc, stopCalls, interrupts,
                   opens, errors, timeouts, nRecv, cur, sent, response, flagCleared, intInLoop>>

BackoffDone ==
    /\ pc = "backoff"
    /\ pc' = "loop_top"
    /\ UNCHANGED <<config, pending, exit, running, healthVars, spc, stopCalls, interrupts,
                   loopVars, flagCleared, intInLoop>>

\* ---- PodMonitorOperator.stop and HealthServer.stop, run by thread t ------
\* at: the thread's position; each operator gives the shared-state change.
StopFlag(t) ==
    /\ running' = FALSE
    /\ flagCleared' = flagCleared \cup {t}
    /\ UNCHANGED healthVars

StopSrv ==
    /\ shutdownReq' = (IF server # "none" THEN TRUE ELSE shutdownReq)
    /\ UNCHANGED <<running, flagCleared, server, health, hpc, isShutDown>>

StopSrvNext == IF server # "none" THEN "stop_wait" ELSE "stop_join"

StopWait ==
    /\ isShutDown
    /\ UNCHANGED <<running, flagCleared, healthVars>>

StopClose ==
    /\ server' = "closed"
    /\ UNCHANGED <<running, flagCleared, hpc, health, shutdownReq, isShutDown>>

\* thread.join(): returns at once without a thread, raises RuntimeError on a
\* thread not yet started, else waits for the thread to end
StopJoin ==
    /\ hpc \in {"none", "created", "exited"}
    /\ UNCHANGED <<running, flagCleared, healthVars>>

StopJoinRaises == hpc = "created"

MainStopFlag ==
    /\ pc = "stop_flag"
    /\ StopFlag("main")
    /\ pc' = "stop_srv"
    /\ UNCHANGED <<config, pending, exit, spc, stopCalls, interrupts, loopVars, intInLoop>>

MainStopSrv ==
    /\ pc = "stop_srv"
    /\ StopSrv
    /\ pc' = StopSrvNext
    /\ UNCHANGED <<config, pending, exit, spc, stopCalls, interrupts, loopVars, intInLoop>>

MainStopWait ==
    /\ pc = "stop_wait"
    /\ StopWait
    /\ pc' = "stop_close"
    /\ UNCHANGED <<config, pending, exit, spc, stopCalls, interrupts, loopVars, intInLoop>>

MainStopClose ==
    /\ pc = "stop_close"
    /\ StopClose
    /\ pc' = "stop_join"
    /\ UNCHANGED <<config, pending, exit, spc, stopCalls, interrupts, loopVars, intInLoop>>

MainStopJoin ==
    /\ pc = "stop_join"
    /\ StopJoin
    /\ pc' = "run_exit"
    /\ pending' = IF StopJoinRaises THEN "RuntimeError" ELSE pending
    /\ UNCHANGED <<config, exit, spc, stopCalls, interrupts, loopVars, intInLoop>>

\* ---- main(): the try/except around run() --------------------------------
MainExit ==
    /\ pc = "run_exit"
    /\ exit' = IF pending \in {"none", "KeyboardInterrupt"} THEN "clean" ELSE "fatal"
    /\ pc' = "done"
    /\ UNCHANGED <<config, pending, running, healthVars, spc, stopCalls, interrupts,
                   loopVars, flagCleared, intInLoop>>

\* ---- the interrupt signal: KeyboardInterrupt in the main thread ---------
Interrupt ==
    /\ pc \in PreTryPcs \cup LoopPcs \cup StopPcs
    /\ interrupts < MaxInterrupts
    /\ interrupts' = interrupts + 1
    /\ pending' = "KeyboardInterrupt"
    /\ pc' = IF pc \in LoopPcs
             THEN (IF Catches("KeyboardInterrupt") THEN "except" ELSE "stop_flag")
             ELSE "run_exit"
    /\ intInLoop' = (intInLoop \/ pc \in LoopPcs)
    /\ cur' = NoEvent
    /\ UNCHANGED <<config, exit, running, healthVars, spc, stopCalls, opens, errors,
                   timeouts, backoffs, slept, nRecv, sent, response, haltOnError, flagCleared>>

\* ---- a second thread calling operator.stop() ----------------------------
StopperCall ==
    /\ spc = "idle"
    /\ pc \notin {"init", "done"}
    /\ config = "ok"
    /\ stopCalls < MaxStopCalls
    /\ stopCalls' = stopCalls + 1
    /\ spc' = "stop_flag"
    /\ UNCHANGED <<config, pc, pending, exit, running, healthVars, interrupts, loopVars,
                   flagCleared, intInLoop>>

StopperFlag ==
    /\ spc = "stop_flag"
    /\ StopFlag("stopper")
    /\ spc' = "stop_srv"
    /\ UNCHANGED <<config, pc, pending, exit, stopCalls, interrupts, loopVars, intInLoop>>

StopperSrv ==
    /\ spc = "stop_srv"
    /\ StopSrv
    /\ spc' = StopSrvNext
    /\ UNCHANGED <<config, pc, pending, exit, stopCalls, interrupts, loopVars, intInLoop>>

StopperWait ==
    /\ spc = "stop_wait"
    /\ StopWait
    /\ spc' = "stop_close"
    /\ UNCHANGED <<config, pc, pending, exit, stopCalls, interrupts, loopVars, intInLoop>>

StopperClose ==
    /\ spc = "stop_close"
    /\ StopClose
    /\ spc' = "stop_join"
    /\ UNCHANGED <<config, pc, pending, exit, stopCalls, interrupts, loopVars, intInLoop>>

StopperJoin ==
    /\ spc = "stop_join"
    /\ StopJoin
    /\ spc' = IF StopJoinRaises THEN "raised" ELSE "idle"
    /\ UNCHANGED <<config, pc, pending, exit, stopCalls, interrupts, loopVars, intInLoop>>

Next ==
    \/ Construct
    \/ StartBind
    \/ StartNewThread
    \/ StartRunThread
    \/ ServeEnter
    \/ ServeRequest
    \/ ServeExit
    \/ SetRunning
    \/ NewWatch
    \/ LoopTop
    \/ OpenStream
    \/ ReadEvent
    \/ ReadTimeout
    \/ ReadError
    \/ CheckRunning
    \/ Filter
    \/ HandlePodEvent
    \/ SendResponse
    \/ Except
    \/ BackoffDone
    \/ MainStopFlag
    \/ MainStopSrv
    \/ MainStopWait
    \/ MainStopClose
    \/ MainStopJoin
    \/ MainExit
    \/ Interrupt
    \/ StopperCall
    \/ StopperFlag
    \/ StopperSrv
    \/ StopperWait
    \/ StopperClose
    \/ StopperJoin

Spec == Init /\ [][Next]_vars

\* ---- the filter and the message builder on bounded inputs ---------------
\* the main thread at line 211 with an event it has just received
MaxLabels == 3
Chars_k8s_app_dns == Chars_k8s_app \o <<".", "d", "n", "s">>
Chars_k8s == <<"k", "8", "s">>
Chars_x_k8s_app == <<"x", "-">> \o Chars_k8s_app
Chars_K8S_APP == <<"K", "8", "S", "-", "A", "P", "P">>
LabelKeys == {Chars_k8s_app, Chars_k8s_app_dns, Chars_k8s, Chars_app, Chars_x_k8s_app,
              Chars_K8S_APP}
LabelMaps == {NoLabels} \cup
             {Labels(ks) : ks \in {k \in SUBSET LabelKeys : Cardinality(k) <= MaxLabels}}
Namespaces == {"kube-system", "default", "kube-system-2", ""}
PodNames == {"web-1", "db-0"}
PodRefs == {[meta |-> TRUE, name |-> n, namespace |-> ns, labels |-> l] :
               n \in PodNames, ns \in Namespaces, l \in LabelMaps}

PureInit ==
    /\ config = "ok"
    /\ pc = "filter"
    /\ pending = "none"
    /\ exit = "none"
    /\ running = TRUE
    /\ server = "open"
    /\ hpc = "serving"
    /\ shutdownReq = FALSE
    /\ isShutDown = FALSE
    /\ health = NoAnswer
    /\ spc = "idle"
    /\ stopCalls = 0
    /\ interrupts = 0
    /\ opens = 1
    /\ errors = 0
    /\ timeouts = 0
    /\ backoffs = 0
    /\ slept = 0
    /\ nRecv = 1
    /\ \E t \in EventTypes, p \in PodRefs : cur = [id |-> 1, type |-> t, pod |-> p]
    /\ sent = <<>>
    /\ response = ""
    /\ flagCleared = {}
    /\ intInLoop = FALSE
    /\ haltOnError = FALSE

PureNext ==
    \/ Filter
    \/ HandlePodEvent

PureSpec == PureInit /\ [][PureNext]_vars

\* ======================= properties ======================================
NoInterruptStep == interrupts' = interrupts
SendsFor(s, id) == {i \in DOMAIN s : s[i].id = id}
InFlight == {i \in DOMAIN sent : sent[i].result = "pending"}
HealthStarted == hpc \in {"started", "serving", "exited"}
HealthStopped == hpc = "exited" /\ server = "closed"

\* C1: after stop() has been called during a run() invocation the watch loop
\* ends within its current iteration: once the second thread's stop() has
\* written the running flag, the loop-top check never again lets the loop
\* open a watch session.
C1_StopEndsLoop ==
    [][("stopper" \in flagCleared /\ pc = "loop_top") => pc' # "open"]_vars

\* C2: the running flag is monotonic: once a stop() has set it false it is
\* never true again.
C2_FlagMonotonic == flagCleared # {} => running = FALSE

\* C3: a stream failure caught while the running flag is true is followed by
\* exactly one backoff wait of the fixed interval and then a new watch
\* session: while the flag is true, N failures have produced N waits of
\* BackoffSeconds and (with no clean timeout) N+1 session opens, and a failure
\* adds no notification.
C3Counts ==
    (pc \in LoopPcs /\ running) =>
        /\ backoffs = (IF pc = "except" THEN errors - 1 ELSE errors)
        /\ slept = BackoffSeconds * backoffs
        /\ opens = errors + timeouts +
                     (IF pc \in {"read", "check_running", "filter", "handle", "await_resp"}
                      THEN 1 ELSE 0)
        /\ \A i \in DOMAIN sent : sent[i].id \in 1..nRecv
C3Step ==
    /\ (pc = "except" /\ pc' # pc /\ running /\ NoInterruptStep) =>
           (pc' = "backoff" /\ backoffs' = backoffs + 1
            /\ slept' = slept + BackoffSeconds /\ opens' = opens)
    /\ (pc = "backoff" /\ pc' # pc /\ NoInterruptStep) => pc' = "loop_top"
    /\ (pc = "loop_top" /\ pc' # pc /\ running /\ NoInterruptStep) => pc' = "open"
    /\ (pc = "open" /\ pc' # pc /\ NoInterruptStep) => (pc' = "read" /\ opens' = opens + 1)
    /\ errors' # errors => (errors' = errors + 1 /\ sent' = sent /\ pc' = "except")
C3_BackoffAndReopen == []C3Counts /\ [][C3Step]_vars
C3_Witness ==
    /\ pc = "read" /\ running
    /\ errors = 2 /\ backoffs = 2 /\ opens = 3 /\ timeouts = 0
    /\ nRecv = 0 /\ sent = <<>>

\* C4: a stream error caught while the running flag is false makes the loop
\* exit: no backoff wait is begun and no watch session is opened afterwards.
C4Step ==
    /\ (pc = "except" /\ pc' # pc /\ ~running /\ NoInterruptStep) =>
           (pc' = "loop_top" /\ backoffs' = backoffs /\ slept' = slept)
    /\ haltOnError =>
           (backoffs' = backoffs /\ opens' = opens /\ pc' \notin {"open", "backoff", "read"})
C4Halted == (haltOnError /\ pc \in LoopPcs) => (pc = "loop_top" /\ ~running)
C4_NoRetryWhenStopped == []C4Halted /\ [][C4Step]_vars
C4_Witness == haltOnError /\ pc = "done" /\ interrupts = 0 /\ errors = 1 /\ backoffs = 0

\* C5: no in-loop error is fatal: the loop is left only at the loop-top check
\* with the running flag set false by a stop(), or by an interrupt; no stream
\* or delivery error propagates out of run().
C5Step ==
    (pc \in LoopPcs /\ pc' \notin LoopPcs) =>
        /\ pc' = "stop_flag"
        /\ \/ /\ pc = "loop_top" /\ ~running /\ "stopper" \in flagCleared
              /\ pending' = "none" /\ NoInterruptStep
           \/ /\ interrupts' = interrupts + 1
              /\ pending' = "KeyboardInterrupt"
C5NoEscape ==
    /\ pc \in StopPcs => pending \in {"none", "KeyboardInterrupt"}
    /\ pending \in ExceptionClasses => pc = "except"
    /\ exit = "fatal" => opens = 0
C5_NoFatalLoopError == []C5NoEscape /\ [][C5Step]_vars
C5_Witness ==
    /\ pc = "done" /\ exit = "clean" /\ interrupts = 0
    /\ errors >= 1 /\ backoffs >= 1
    /\ \E i \in DOMAIN sent : sent[i].result = "failed"

\* C6: send_message reports failure for a non-success status or a transport
\* failure and does not raise; after a failed delivery the loop reads the next
\* event of the same session: no backoff, no reconnect, no exit.
C6Results ==
    /\ response \in {"500", "ConnectionError"} => sent[Len(sent)].result = "failed"
    /\ (sent # <<>> /\ sent[Len(sent)].result = "delivered") => response = "200"
    /\ response # "" => (sent # <<>> /\ sent[Len(sent)].result # "pending")
C6Step ==
    (pc = "await_resp" /\ pc' # pc /\ NoInterruptStep) =>
        /\ pc' = "read"
        /\ pending' = "none"
        /\ opens' = opens /\ backoffs' = backoffs /\ errors' = errors
        /\ Len(sent') = Len(sent)
        /\ sent'[Len(sent')].result \in {"delivered", "failed"}
C6_DeliveryFailureIsLocal == []C6Results /\ [][C6Step]_vars
C6_Witness ==
    /\ pc = "filter" /\ opens = 1 /\ backoffs = 0 /\ nRecv = 2
    /\ Len(sent) = 1 /\ sent[1].id = 1 /\ response = "500" /\ sent[1].result = "failed"

\* C7 (as stated): every lifecycle event received from the stream that the
\* filter does not drop gets exactly one send_message call by the time the
\* loop is done with it (interrupted handling left aside).
LifecycleEvent(e) == e # NoEvent /\ e.pod.meta /\ Notifies(e.type)
C7_ExactlyOneAttempt ==
    [][(LifecycleEvent(cur) /\ cur' = NoEvent /\ ~_should_ignore_pod(cur.pod)
         /\ NoInterruptStep) =>
          Cardinality(SendsFor(sent', cur.id)) = 1]_vars

\* C7 (amended): every lifecycle event gets at most one send_message call and
\* a failed delivery is not retried; an event that passed the running-flag
\* check, is not filtered out, and whose handling is not cut by an interrupt
\* gets exactly one.
C7AtMostOnce == \A id \in 1..nRecv : Cardinality(SendsFor(sent, id)) <= 1
C7Step ==
    /\ (LifecycleEvent(cur) /\ cur' = NoEvent /\ ~_should_ignore_pod(cur.pod)
          /\ pc # "check_running" /\ NoInterruptStep) =>
           Cardinality(SendsFor(sent', cur.id)) = 1
    /\ (pc = "await_resp" /\ pc' # pc) => pc' # "handle"
C7_AtMostOneAttempt == []C7AtMostOnce /\ [][C7Step]_vars
C7_Witness ==
    /\ pc = "read" /\ nRecv = 2 /\ Len(sent) = 2
    /\ sent[1].id = 1 /\ sent[1].result = "failed" /\ sent[2].id = 2

\* C8: notifications are sent in the order the events are received, across
\* sessions, and processing is sequential: a send_message call is made for the
\* event received last, no event is read while a call is in flight, and at
\* most one call is in flight.
C8Ordered ==
    /\ \A i, j \in DOMAIN sent : i < j => sent[i].id < sent[j].id
    /\ Cardinality(InFlight) <= 1
    /\ \A i \in InFlight : i = Len(sent)
    /\ pc \in LoopPcs \ {"await_resp"} => InFlight = {}
C8Step ==
    /\ nRecv' # nRecv => (InFlight = {} /\ pc = "read" /\ nRecv' = nRecv + 1)
    /\ Len(sent') # Len(sent) =>
           /\ sent' = Append(sent, sent'[Len(sent')])
           /\ sent'[Len(sent')].id = nRecv
           /\ InFlight = {}
C8_OrderedSequential == []C8Ordered /\ [][C8Step]_vars
C8_Witness ==
    /\ Len(sent) = 2 /\ sent[1].id = 1 /\ sent[2].id = 2
    /\ opens = 3 /\ sent[2].result = "delivered"

\* C9: whenever run() has exited after the health server was started, the
\* running flag is false and the health server has been stopped.
C9_CleanupOnExit ==
    (pc \in {"run_exit", "done"} /\ HealthStarted) => (~running /\ HealthStopped)

\* C10: an interrupt received while the loop is connecting, streaming or in
\* backoff is not handled as a stream error: control goes to the cleanup path,
\* no backoff is begun and no session opened after it, and (with no second
\* interrupt cutting the cleanup) the flag is false, the health server is
\* stopped and main() ends cleanly.
C10Step ==
    /\ (pc \in LoopPcs /\ ~NoInterruptStep) =>
           (pc' = "stop_flag" /\ pending' = "KeyboardInterrupt" /\ intInLoop')
    /\ intInLoop =>
           (backoffs' = backoffs /\ opens' = opens /\ errors' = errors
            /\ pc' \notin LoopPcs)
C10Ends ==
    (intInLoop /\ pc = "done") =>
        /\ exit = "clean"
        /\ interrupts = 1 => (~running /\ HealthStopped)
C10_InterruptIsGraceful == []C10Ends /\ [][C10Step]_vars
C10_Witness ==
    /\ intInLoop /\ pc = "done" /\ interrupts = 1 /\ exit = "clean"
    /\ ~running /\ HealthStopped /\ backoffs = 1 /\ opens = 2

\* C11: once the health server is serving and until it is shut down, a GET
\* /health is answered 200 "healthy" whatever the watch loop is doing: the
\* handler can run at every position of the main thread (stream read, backoff
\* wait, Notifier call included) and its answer does not depend on the loop.
C11Answered ==
    /\ health.path = "/health" => (health.code = 200 /\ health.status = "healthy")
    /\ (hpc = "serving" /\ ~shutdownReq) => ENABLED ServeRequest
C11Step ==
    health' # health =>
        /\ UNCHANGED <<pc, running, opens, errors, backoffs, sent>>
        /\ (health'.path = "/health" => health'.code = 200)
C11_HealthIndependent == []C11Answered /\ [][C11Step]_vars
C11_Witness ==
    /\ pc = "backoff" /\ errors = 2 /\ backoffs = 2
    /\ hpc = "serving" /\ health.path = "/health" /\ health.code = 200

\* C12: the health server is started before the first watch session is opened
\* and is stopped only during shutdown: whenever it has been started and the
\* running flag is true, it has not been asked to shut down and its socket is
\* open.
C12_ServingWhileRunning ==
    /\ opens > 0 => HealthStarted
    /\ (HealthStarted /\ running) =>
           (hpc \in {"started", "serving"} /\ server = "open" /\ ~shutdownReq)

\* C13: over bounded namespaces and label maps (absent and empty included) the
\* filter ignores a pod exactly when its namespace is "kube-system" or one of
\* its label keys starts with the system-component prefix, and it never fails.
SystemPrefix(k) ==
    /\ Len(k) >= Len(Chars_k8s_app)
    /\ \A i \in 1..Len(Chars_k8s_app) : k[i] = Chars_k8s_app[i]
SystemPod(pod) ==
    \/ pod.namespace = "kube-system"
    \/ (pod.labels.present /\ \E k \in pod.labels.keys : SystemPrefix(k))
C13Agrees == pc = "filter" => (_should_ignore_pod(cur.pod) <=> SystemPod(cur.pod))
C13Step ==
    (pc = "filter" /\ pc' # pc) =>
        /\ pc' = (IF SystemPod(cur.pod) THEN "read" ELSE "handle")
        /\ pending' = "none" /\ errors' = errors
C13_ShouldIgnoreExactly == []C13Agrees /\ [][C13Step]_vars
\* the filter has let through a pod whose namespace and label keys only
\* resemble the reserved ones
C13_Witness ==
    /\ pc = "handle" /\ cur.pod.namespace = "kube-system-2"
    /\ cur.pod.labels = Labels({Chars_k8s, Chars_x_k8s_app, Chars_K8S_APP})

\* C14: for each of ADDED, MODIFIED, DELETED and every pod name the message
\* handed to send_message is the kind's fixed template followed by the name.
Template == [ADDED |-> "Hello world from ", MODIFIED |-> "Things have changed, ",
             DELETED |-> "Goodbye world from, "]
C14Examples ==
    \A i \in DOMAIN sent :
        sent[i].msg \in {Template[t] \o n : t \in DOMAIN Template, n \in PodNames}
C14Step ==
    /\ (pc = "handle" /\ pc' # pc /\ cur.type \in DOMAIN Template) =>
           /\ sent' = Append(sent, sent'[Len(sent')])
           /\ sent'[Len(sent')].msg = Template[cur.type] \o cur.pod.name
    /\ (cur.type = "ADDED" /\ cur.pod.name = "web-1" /\ Len(sent') > Len(sent)) =>
           sent'[Len(sent')].msg = "Hello world from web-1"
    /\ (cur.type = "MODIFIED" /\ cur.pod.name = "web-1" /\ Len(sent') > Len(sent)) =>
           sent'[Len(sent')].msg = "Things have changed, web-1"
    /\ (cur.type = "DELETED" /\ cur.pod.name = "web-1" /\ Len(sent') > Len(sent)) =>
           sent'[Len(sent')].msg = "Goodbye world from, web-1"
C14_MessageTemplates == []C14Examples /\ [][C14Step]_vars
C14_Witness ==
    /\ pc = "await_resp" /\ cur.type = "DELETED" /\ cur.pod.name = "db-0"
    /\ Len(sent) = 1 /\ sent[1].msg = "Goodbye world from, db-0"

\* The watch loop's state read off the main thread's position. At the
\* loop-top check with the flag false the loop can only leave, so that
\* position counts as Stopped; before the try block the loop does not exist.
WatchStates == {"Connecting", "Streaming", "Backoff", "Stopped"}
WatchState ==
    IF pc \in PreTryPcs THEN "Idle"
    ELSE IF pc = "loop_top" THEN (IF running THEN "Connecting" ELSE "Stopped")
    ELSE IF pc = "open" THEN "Connecting"
    ELSE IF pc \in {"read", "check_running", "filter", "handle", "await_resp"} THEN "Streaming"
    ELSE IF pc \in {"except", "backoff"} THEN "Backoff"
    ELSE "Stopped"
WatchStep(toStopped) ==
    (WatchState \in WatchStates /\ WatchState' # WatchState) =>
        \/ WatchState = "Connecting" /\ WatchState' = "Streaming" /\ opens' = opens + 1
        \/ WatchState = "Streaming" /\ WatchState' = "Connecting" /\ timeouts' = timeouts + 1
        \/ WatchState = "Streaming" /\ WatchState' = "Backoff" /\ errors' = errors + 1
        \/ WatchState = "Backoff" /\ WatchState' = "Connecting" /\ pc = "backoff"
        \/ WatchState # "Stopped" /\ WatchState' = "Stopped" /\ toStopped

\* C15 (as stated): the loop's state is one of Connecting, Streaming, Backoff,
\* Stopped, and every transition is Connecting->Streaming on open,
\* Streaming->Connecting on clean timeout, Streaming->Backoff on error,
\* Backoff->Connecting after the delay, or any state->Stopped when the running
\* flag is false; Stopped has no outgoing transition.
C15_StateMachine == [][WatchStep(~running')]_vars

\* C15 (amended): as stated, except that a state also goes to Stopped when an
\* interrupt signal is received, whatever the running flag.
C15InStates == pc \notin PreTryPcs => WatchState \in WatchStates
C15_StateMachineWithInterrupt ==
    []C15InStates /\ [][WatchStep(~running' \/ ~NoInterruptStep)]_vars
C15_Witness ==
    /\ pc = "done" /\ intInLoop /\ interrupts = 1
    /\ opens = 3 /\ timeouts = 1 /\ errors = 1 /\ backoffs = 1

\* C16: the running flag is checked first for each event received: with the
\* flag false the event is neither filtered nor forwarded (no send_message
\* call is ever made for it) and the session is abandoned; the filter is
\* reached only through a check that found the flag true.
C16Step ==
    /\ (pc = "check_running" /\ ~running /\ pc' # pc /\ NoInterruptStep) =>
           /\ pc' = "loop_top"
           /\ sent' = sent /\ SendsFor(sent, cur.id) = {}
           /\ errors' = errors /\ opens' = opens
    /\ (pc = "loop_top" /\ ~running) =>
           (sent' = sent /\ nRecv' = nRecv /\ opens' = opens
            /\ pc' \in {"loop_top", "stop_flag"})
    /\ pc \in StopPcs \cup {"run_exit", "done"} =>
           (sent' = sent /\ nRecv' = nRecv /\ opens' = opens)
    /\ (pc' = "filter" /\ pc # "filter") => (pc = "check_running" /\ running)
C16_FlagCheckedFirst == [][C16Step]_vars
C16_Witness ==
    /\ pc = "loop_top" /\ ~running /\ interrupts = 0
    /\ nRecv = 1 /\ opens = 1 /\ timeouts = 0 /\ errors = 0 /\ sent = <<>>

\* C17: without SLACK_WEBHOOK_URL construction fails at once: the health
\* server is never started, no watch session is opened, nothing is sent, and
\* the ValueError reaches main(), which re-raises it.
C17FailsFast ==
    config = "no_webhook" =>
        /\ server = "none" /\ hpc = "none" /\ health = NoAnswer
        /\ ~running /\ opens = 0 /\ nRecv = 0 /\ sent = <<>>
        /\ pc \in {"init", "run_exit", "done"}
        /\ (pc # "init" /\ interrupts = 0) => pending = "ValueError"
        /\ (pc = "done" /\ interrupts = 0) => exit = "fatal"
C17_MissingWebhookFailsFast == []C17FailsFast
C17_Witness == config = "no_webhook" /\ pc = "done" /\ exit = "fatal" /\ pending = "ValueError"

\* C18: a session that ends by its clean timeout is recycled without a backoff
\* wait: the loop goes to its top and, the flag being true, opens a new
\* session; the backoff waits never outnumber the errors caught.
C18Bound == backoffs <= errors /\ slept = BackoffSeconds * backoffs
C18Step ==
    /\ timeouts' # timeouts =>
           /\ pc = "read" /\ pc' = "loop_top" /\ timeouts' = timeouts + 1
           /\ backoffs' = backoffs /\ slept' = slept /\ errors' = errors
    /\ (pc = "loop_top" /\ running /\ pc' # pc /\ NoInterruptStep) => pc' = "open"
C18_TimeoutRecyclesWithoutBackoff == []C18Bound /\ [][C18Step]_vars
C18_Witness ==
    /\ pc = "read" /\ running /\ opens = 2 /\ timeouts = 1
    /\ errors = 0 /\ backoffs = 0 /\ slept = 0

\* C19: an event whose pod the filter ignores produces no send_message call
\* and neither ends the session nor starts a backoff: the loop reads the next
\* event of the same session.
C19NotHandled == pc \in {"handle", "await_resp"} => ~SystemPod(cur.pod)
C19Step ==
    (pc = "filter" /\ cur.pod.meta /\ SystemPod(cur.pod) /\ pc' # pc /\ NoInterruptStep) =>
        /\ pc' = "read"
        /\ sent' = sent /\ response' = response
        /\ opens' = opens /\ backoffs' = backoffs /\ errors' = errors
        /\ pending' = "none"
C19_IgnoredEventIsSkipped == []C19NotHandled /\ [][C19Step]_vars
C19_Witness ==
    /\ pc = "filter" /\ cur.id = 2 /\ cur.type = "ADDED" /\ cur.pod = PodProxy
    /\ opens = 1 /\ Len(sent) = 1 /\ sent[1].result = "delivered"

\* C20: stop() is idempotent and safe to repeat: a stop() request made from
\* another thread, before the health server was started or before the stop()
\* of run()'s cleanup path, raises nothing, and once both calls have
\* completed the running flag is false and a started health server is
\* stopped.
BothStopsDone ==
    /\ flagCleared = {"main", "stopper"}
    /\ spc = "idle"
    /\ pc \in {"run_exit", "done"} /\ pending = "none"
C20_StopIsRepeatable ==
    /\ spc # "raised"
    /\ pending # "RuntimeError"
    /\ BothStopsDone => (~running /\ (HealthStarted => HealthStopped))

====
